---- MODULE Spec2Model ----
(***************************************************************************)
(* Model of the page-based storage engine of simple-rdbms:                 *)
(*   src/storage/page.py          Page (layout, space accounting, codec)   *)
(*   src/storage/file_manager.py  FileManager (page I/O on one file)       *)
(*   src/storage/table.py         Table (CRUD, primary-key/unique indexes) *)
(*                                                                         *)
(* Bytes are integers 0..255 and a byte string is a sequence of them.      *)
(* A row is a record [id, name] of the schema                              *)
(*   id INTEGER PRIMARY KEY, name TEXT UNIQUE (nullable).                  *)
(* A TEXT value is the string made of n letters 'x', written as the        *)
(* number n; the null value is NULL.                                       *)
(***************************************************************************)
EXTENDS Integers, Sequences, FiniteSets, TLC

VARIABLES
    page,               \* PageSpec: the in-memory Page object under test
    plast,              \* PageSpec: the last Page call, its arguments and result
    exists,             \* whether the table file exists on disk
    file,               \* the table file: its complete PAGE_SIZE blocks, in order
    flast,              \* FileSpec: the last FileManager call and its result
    primary_key_index,  \* Table.primary_key_index: pk value -> <<page_id, row_index>>
    unique_indexes,     \* Table.unique_indexes: column name -> set of values
    next_page_id,       \* Table.next_page_id
    tlast               \* Spec: the last Table call, its arguments and outcome

vars == <<page, plast, exists, file, flast,
          primary_key_index, unique_indexes, next_page_id, tlast>>

----------------------------------------------------------------------------
(* Constants of the program *)

PAGE_SIZE == 4096
HEADER_SIZE == 12

(* Bounds of the model *)

MaxRows == 2        \* rows held by the Page under test
MaxPageId == 1      \* page ids of the Page under test: 0..MaxPageId
MaxId == 2          \* id column values: 1..MaxId
MaxPages == 3       \* pages a table file may grow to
MaxFileRows == 1    \* FileSpec: rows of a page handed to write_page

NULL == -1

\* TEXT values used as inputs: "x", and the strings that make two rows
\* (2017 letters each) or one row (4059 letters) fill a page exactly.
NameLens == {1, 2017, 4059}
Names == NameLens \cup {NULL}
Ids == 1..MaxId
Rows == [id : Ids, name : Names]

Min(S) == CHOOSE x \in S : \A y \in S : x <= y
Max(S) == 0 - Min({0 - x : x \in S})

----------------------------------------------------------------------------
(* Byte strings *)

\* data[a:b] of Python: 0-based, half-open, clamped to the length of data
Slice(data, a, b) ==
    IF a >= Len(data) \/ b <= a THEN << >>
    ELSE SubSeq(data, a + 1, IF b < Len(data) THEN b ELSE Len(data))

Zeros(n) == [i \in 1..n |-> 0]

\* struct.pack('I', n): 4 bytes, native (little-endian) order
pack_I(n) ==
    << n % 256, (n \div 256) % 256, (n \div 65536) % 256, (n \div 16777216) % 256 >>

\* struct.unpack('I', b)[0] for a 4-byte string b
unpack_I(b) == b[1] + 256 * b[2] + 65536 * b[3] + 16777216 * b[4]

RECURSIVE Digits(_)
\* str(n).encode() for n >= 0
Digits(n) == IF n < 10 THEN << 48 + n >> ELSE Digits(n \div 10) \o << 48 + (n % 10) >>

LitOpenId == << 123, 34, 105, 100, 34, 58, 32 >>                 \* {"id":_
LitName   == << 44, 32, 34, 110, 97, 109, 101, 34, 58, 32 >>     \* ,_"name":_
LitNull   == << 110, 117, 108, 108 >>                            \* null
IsDigit(b) == b >= 48 /\ b <= 57
IsJsonSpace(b) == b \in {32, 9, 10, 13}

\* json.dumps(row).encode('utf-8')
json_dumps(row) ==
    LitOpenId \o Digits(row.id) \o LitName
      \o (IF row.name = NULL THEN LitNull
          ELSE << 34 >> \o [i \in 1..row.name |-> 120] \o << 34 >>)
      \o << 125 >>

RECURSIVE DigitsValue(_)
DigitsValue(ds) ==
    IF Len(ds) = 0 THEN 0
    ELSE 10 * DigitsValue(SubSeq(ds, 1, Len(ds) - 1)) + (ds[Len(ds)] - 48)

\* bytes.decode('utf-8') raises UnicodeDecodeError on a byte >= 0x80 that
\* is not followed by continuation bytes 0x80..0xBF; a page holds such bytes
\* only in length prefixes, whose next byte is < 0x10 or missing.
utf8_decodes(b) == \A i \in 1..Len(b) : b[i] < 128

\* json.loads(text) for the texts json_dumps produces, possibly followed by
\* other bytes: the row, or "Extra data"/"Expecting ..." (JSONDecodeError).
\* The decoder accepts trailing JSON whitespace and nothing else.
json_loads(text) ==
    LET n == Len(text)
        nondig == {j \in 8..n : ~IsDigit(text[j])}
        dend == IF nondig = {} THEN n + 1 ELSE Min(nondig)   \* first byte after the digits
        v == dend + 10                                       \* first byte of the name value
        isnull == Slice(text, v - 1, v + 3) = LitNull
        nonx == {j \in (v + 1)..n : text[j] # 120}
        q == IF nonx = {} THEN n + 1 ELSE Min(nonx)          \* closing quote of a string
        close == IF isnull THEN v + 4 ELSE q + 1             \* position of }
        wellformed ==
            /\ Slice(text, 0, 7) = LitOpenId
            /\ dend > 8
            /\ Slice(text, dend - 1, dend + 9) = LitName
            /\ \/ isnull
               \/ v <= n /\ text[v] = 34 /\ q <= n /\ text[q] = 34
            /\ close <= n /\ text[close] = 125
            /\ \A j \in (close + 1)..n : IsJsonSpace(text[j])
    IN  IF wellformed
        THEN [ok |-> TRUE,
              row |-> [id |-> DigitsValue(SubSeq(text, 8, dend - 1)),
                       name |-> IF isnull THEN NULL ELSE q - v - 1]]
        ELSE [ok |-> FALSE, row |-> [id |-> 0, name |-> NULL]]

----------------------------------------------------------------------------
(* Page (src/storage/page.py) *)

\* Page.__init__
NewPage(page_id) ==
    [page_id |-> page_id, num_rows |-> 0, free_space_offset |-> HEADER_SIZE, rows |-> << >>]

\* can_fit with a strict comparison
can_fit_strict(p, row_data) ==
    LET row_size == Len(json_dumps(row_data)) + 4
        available_space == PAGE_SIZE - p.free_space_offset
    IN  available_space > row_size

can_fit(p, row_data) ==
    LET row_size == Len(json_dumps(row_data)) + 4
        available_space == PAGE_SIZE - p.free_space_offset
    IN  available_space >= row_size

\* insert_row that forgets the length prefix when it advances free_space_offset
Page_insert_row_no_prefix(p, row_data) ==
    IF ~can_fit(p, row_data) THEN [ret |-> FALSE, page |-> p]
    ELSE [ret |-> TRUE,
          page |-> [p EXCEPT !.rows = Append(@, row_data),
                             !.num_rows = @ + 1,
                             !.free_space_offset = @ + Len(json_dumps(row_data))]]

\* Page.insert_row: the value returned and the page afterwards
Page_insert_row(p, row_data) ==
    IF ~can_fit(p, row_data) THEN [ret |-> FALSE, page |-> p]
    ELSE [ret |-> TRUE,
          page |-> [p EXCEPT !.rows = Append(@, row_data),
                             !.num_rows = @ + 1,
                             !.free_space_offset = @ + Len(json_dumps(row_data)) + 4]]

\* Page.get_row: the row, or absent
get_row(p, row_index) ==
    IF 0 <= row_index /\ row_index < Len(p.rows)
    THEN [found |-> TRUE, row |-> p.rows[row_index + 1]]
    ELSE [found |-> FALSE, row |-> [id |-> 0, name |-> NULL]]

RECURSIVE used_space(_)
used_space(rows) ==
    IF Len(rows) = 0 THEN HEADER_SIZE
    ELSE used_space(SubSeq(rows, 1, Len(rows) - 1)) + Len(json_dumps(rows[Len(rows)])) + 4

recalculate_free_space(p) == [p EXCEPT !.free_space_offset = used_space(p.rows)]

Page_update_row(p, row_index, new_data) ==
    IF 0 <= row_index /\ row_index < Len(p.rows)
    THEN LET old_size == Len(json_dumps(p.rows[row_index + 1]))
             new_size == Len(json_dumps(new_data))
         IN  IF new_size <= old_size \/ can_fit(p, new_data)
             THEN [ret |-> TRUE,
                   page |-> recalculate_free_space([p EXCEPT !.rows[row_index + 1] = new_data])]
             ELSE [ret |-> FALSE, page |-> p]
    ELSE [ret |-> FALSE, page |-> p]

\* list.pop(i)
Pop(s, i) == SubSeq(s, 1, i) \o SubSeq(s, i + 2, Len(s))

Page_delete_row(p, row_index) ==
    IF 0 <= row_index /\ row_index < Len(p.rows)
    THEN [ret |-> TRUE,
          page |-> recalculate_free_space(
                      [p EXCEPT !.rows = Pop(@, row_index), !.num_rows = @ - 1])]
    ELSE [ret |-> FALSE, page |-> p]

RECURSIVE rows_data(_)
rows_data(rows) ==
    IF Len(rows) = 0 THEN << >>
    ELSE LET row_json == json_dumps(rows[Len(rows)])
         IN  rows_data(SubSeq(rows, 1, Len(rows) - 1)) \o pack_I(Len(row_json)) \o row_json

\* lines 131-134 of Page.serialize: b'\x00' * padding is empty when padding <= 0
pad_page(page_data) ==
    LET padding == PAGE_SIZE - Len(page_data)
    IN  page_data \o Zeros(IF padding > 0 THEN padding ELSE 0)

\* Page.serialize
serialize(p) ==
    pad_page(pack_I(p.page_id) \o pack_I(p.num_rows) \o pack_I(p.free_space_offset)
               \o rows_data(p.rows))

RECURSIVE read_rows(_, _, _, _)
RECURSIVE read_row(_, _, _, _, _)
RECURSIVE append_row(_, _, _, _, _)
\* the loop of Page.deserialize: the rows read, or the exception raised
read_rows(data, n, offset, rows) ==
    IF n = 0 THEN [ok |-> TRUE, exc |-> "", rows |-> rows]
    ELSE IF Len(Slice(data, offset, offset + 4)) # 4
    THEN [ok |-> FALSE, exc |-> "struct.error", rows |-> << >>]
    ELSE read_row(data, n, offset + 4, rows, unpack_I(Slice(data, offset, offset + 4)))

\* lines 157-159: decode and parse the row text, then go on with the next row
read_row(data, n, offset, rows, row_length) ==
    IF ~utf8_decodes(Slice(data, offset, offset + 4 + row_length))
    THEN [ok |-> FALSE, exc |-> "UnicodeDecodeError", rows |-> << >>]
    ELSE append_row(data, n, offset + row_length, rows,
                    json_loads(Slice(data, offset, offset + 4 + row_length)))

append_row(data, n, offset, rows, parsed) ==
    IF ~parsed.ok THEN [ok |-> FALSE, exc |-> "JSONDecodeError", rows |-> << >>]
    ELSE read_rows(data, n - 1, offset, Append(rows, parsed.row))

\* lines 148-161 of Page.deserialize: the page made of the header fields and
\* the rows read
page_read(page_id, num_rows, free_space_offset, r) ==
    [ok |-> r.ok, exc |-> r.exc,
     page |-> [page_id |-> page_id, num_rows |-> num_rows,
               free_space_offset |-> free_space_offset, rows |-> r.rows]]

\* Page.deserialize: the page, or the exception raised
deserialize(data) ==
    page_read(unpack_I(Slice(data, 0, 4)), unpack_I(Slice(data, 4, 8)),
              unpack_I(Slice(data, 8, 12)),
              read_rows(data, unpack_I(Slice(data, 4, 8)), HEADER_SIZE, << >>))


----------------------------------------------------------------------------
(* PageSpec: one Page object driven by insert_row / update_row / delete_row *)

NoRow == [id |-> 0, name |-> NULL]
NoPage == NewPage(0)
EmptyIndex == [k \in {} |-> << 0, 0 >>]
EmptyUnique == [c \in {"id", "name"} |-> {}]
NoTableCall == [op |-> "none", key |-> 0, row |-> NoRow, outcome |-> "none"]
NoCall == [op |-> "none", row |-> NoRow, index |-> 0, ret |-> FALSE]

\* state of the components a specification does not drive
FileIdle ==
    /\ exists = FALSE
    /\ file = << >>
    /\ flast = [op |-> "none", page_id |-> 0, ret |-> FALSE, found |-> FALSE, page |-> NoPage]
TableIdle ==
    /\ primary_key_index = EmptyIndex
    /\ unique_indexes = EmptyUnique
    /\ next_page_id = 0
    /\ tlast = NoTableCall

PageInit ==
    /\ page \in {NewPage(k) : k \in 0..MaxPageId}
    /\ plast = NoCall
    /\ FileIdle
    /\ TableIdle

\* page.insert_row(row); the page under test is kept to MaxRows rows
PInsert(row) ==
    /\ Len(page.rows) < MaxRows \/ ~can_fit(page, row)
    /\ LET r == Page_insert_row(page, row)
       IN  /\ page' = r.page
           /\ plast' = [op |-> "insert_row", row |-> row, index |-> 0, ret |-> r.ret]

\* page.update_row(index, row)
PUpdate(index, row) ==
    LET r == Page_update_row(page, index, row)
    IN  /\ page' = r.page
        /\ plast' = [op |-> "update_row", row |-> row, index |-> index, ret |-> r.ret]

\* page.delete_row(index)
PDelete(index) ==
    LET r == Page_delete_row(page, index)
    IN  /\ page' = r.page
        /\ plast' = [op |-> "delete_row", row |-> NoRow, index |-> index, ret |-> r.ret]

PageRest == <<exists, file, flast, primary_key_index, unique_indexes, next_page_id, tlast>>

PageInsertStep == (\E row \in Rows : PInsert(row)) /\ UNCHANGED PageRest
PageUpdateStep ==
    (\E index \in (0 - 1)..MaxRows, row \in Rows : PUpdate(index, row)) /\ UNCHANGED PageRest
PageDeleteStep == (\E index \in (0 - 1)..MaxRows : PDelete(index)) /\ UNCHANGED PageRest

PageNext ==
    \/ PageInsertStep
    \/ PageUpdateStep
    \/ PageDeleteStep

PageSpec == PageInit /\ [][PageNext]_vars

----------------------------------------------------------------------------
(* FileManager (src/storage/file_manager.py)                               *)
(* The file is the sequence of its PAGE_SIZE-byte blocks; block i starts   *)
(* at offset (i - 1) * PAGE_SIZE.  A block is stored without its trailing  *)
(* zero bytes; BlockBytes gives the PAGE_SIZE bytes back.                  *)

StripZeros(b) ==
    LET nz == {i \in 1..Len(b) : b[i] # 0}
    IN  IF nz = {} THEN << >> ELSE SubSeq(b, 1, Max(nz))

BlockBytes(blk) == blk \o Zeros(PAGE_SIZE - Len(blk))

file_size(f) == Len(f) * PAGE_SIZE

\* FileManager.write_page: io_ok = FALSE is an OS error raised by open/seek/
\* write, caught at line 83.  A seek past the end of the file followed by a
\* write leaves a gap of zero bytes.
write_page(ex, f, p, io_ok) ==
    IF ~io_ok THEN [ret |-> FALSE, exists |-> ex, file |-> f]
    ELSE LET old == IF ex THEN f ELSE << >>       \* mode 'wb' starts an empty file
             n == IF Len(old) > p.page_id + 1 THEN Len(old) ELSE p.page_id + 1
         IN  [ret |-> TRUE, exists |-> TRUE,
              file |-> [i \in 1..n |->
                          IF i = p.page_id + 1 THEN StripZeros(serialize(p))
                          ELSE IF i <= Len(old) THEN old[i]
                          ELSE << >>]]

\* lines 117-121 of FileManager.read_page
page_or_none(d) ==
    IF d.ok THEN [found |-> TRUE, page |-> d.page] ELSE [found |-> FALSE, page |-> NoPage]

\* FileManager.read_page: the page, or absent (None).  An exception raised by
\* Page.deserialize is caught at line 119 and None is returned.
read_page(ex, f, page_id) ==
    IF ~ex THEN [found |-> FALSE, page |-> NoPage]
    ELSE LET offset == page_id * PAGE_SIZE
         IN  IF offset + PAGE_SIZE > file_size(f) THEN [found |-> FALSE, page |-> NoPage]
             ELSE page_or_none(deserialize(BlockBytes(f[page_id + 1])))

get_num_pages(ex, f) == IF ~ex THEN 0 ELSE file_size(f) \div PAGE_SIZE

\* line 148 of FileManager.scan_all_pages
yielded(r) == r.found /\ r.page.num_rows > 0

pages_of(reads) == [i \in 1..Len(reads) |-> reads[i].page]

\* FileManager.scan_all_pages: the pages the generator yields, in order
scan_all_pages(ex, f) ==
    pages_of(SelectSeq([i \in 1..get_num_pages(ex, f) |-> read_page(ex, f, i - 1)], yielded))

----------------------------------------------------------------------------
(* FileSpec: pages are built in memory, written to the file and read back *)

FileRows == {[id |-> 1, name |-> NULL], [id |-> 2, name |-> 1], [id |-> 1, name |-> 4059]}

FileInit ==
    /\ page = NewPage(0)
    /\ plast = NoCall
    /\ FileIdle
    /\ TableIdle

\* Page(page_id): a new, empty page object
FNewPage(page_id) ==
    /\ page' = NewPage(page_id)
    /\ UNCHANGED <<exists, file, flast>>

\* page.insert_row(row)
FInsert(row) ==
    /\ Len(page.rows) < MaxFileRows \/ ~can_fit(page, row)
    /\ page' = Page_insert_row(page, row).page
    /\ UNCHANGED <<exists, file, flast>>

\* file_manager.write_page(name, page)
Written(r) ==
    /\ exists' = r.exists
    /\ file' = r.file
    /\ flast' = [op |-> "write_page", page_id |-> page.page_id, ret |-> r.ret,
                 found |-> FALSE, page |-> page]
    /\ UNCHANGED page

FWrite(io_ok) == Written(write_page(exists, file, page, io_ok))

\* file_manager.read_page(name, page_id)
WasRead(page_id, r) ==
    /\ flast' = [op |-> "read_page", page_id |-> page_id, ret |-> FALSE,
                 found |-> r.found, page |-> r.page]
    /\ UNCHANGED <<page, exists, file>>

FRead(page_id) == WasRead(page_id, read_page(exists, file, page_id))

\* damage to the file (section 7, corruption): the num_rows field of the
\* header of block page_id is raised by one, the bytes after it are kept, so
\* that the header declares one row more than the block holds
Damaged(blk) ==
    StripZeros([BlockBytes(blk) EXCEPT ![5] = @ + 1])

FCorrupt(page_id) ==
    /\ exists /\ page_id < Len(file)
    /\ unpack_I(Slice(BlockBytes(file[page_id + 1]), 4, 8)) <= MaxFileRows
    /\ file' = [file EXCEPT ![page_id + 1] = Damaged(@)]
    /\ flast' = [op |-> "corrupt", page_id |-> page_id, ret |-> FALSE,
                 found |-> FALSE, page |-> NoPage]
    /\ UNCHANGED <<page, exists>>

FileRest == <<plast, primary_key_index, unique_indexes, next_page_id, tlast>>

FileNewPageStep == (\E page_id \in 0..MaxPageId : FNewPage(page_id)) /\ UNCHANGED FileRest
FileInsertStep == (\E row \in FileRows : FInsert(row)) /\ UNCHANGED FileRest
FileWriteStep == (\E io_ok \in BOOLEAN : FWrite(io_ok)) /\ UNCHANGED FileRest
FileReadStep == (\E page_id \in 0..(MaxPageId + 1) : FRead(page_id)) /\ UNCHANGED FileRest
FileCorruptStep == (\E page_id \in 0..MaxPageId : FCorrupt(page_id)) /\ UNCHANGED FileRest

FileNext ==
    \/ FileNewPageStep
    \/ FileInsertStep
    \/ FileWriteStep
    \/ FileReadStep
    \/ FileCorruptStep

FileSpec == FileInit /\ [][FileNext]_vars

----------------------------------------------------------------------------
(* Table (src/storage/table.py), schema                                    *)
(*   Column("id", "INTEGER", primary_key=True),                            *)
(*   Column("name", "TEXT", unique=True)                                   *)
(* so primary_key_cols = ["id"] and unique_cols = ["id", "name"].          *)
(* table.py calls _get_primary_key_value, validate_row and uses the index  *)
(* attributes without defining them, and has no insert_row; these are      *)
(* modelled after sections 3 and 4.3 of the specification.                 *)

primary_key_cols == << "id" >>
unique_cols == << "id", "name" >>

\* Table._get_primary_key_value (section 4.3)
get_primary_key_value(row) == row[primary_key_cols[1]]

\* pki with pki[k] = loc
IndexPut(pki, k, loc) == [x \in DOMAIN pki \cup {k} |-> IF x = k THEN loc ELSE pki[x]]

\* Table.validate_row for a row of the declared columns and types: "" when
\* valid, else the reason (section 4.3)
validate_row(ui, row) ==
    IF row.id \in ui["id"] THEN "Duplicate primary key"
    ELSE IF row.name # NULL /\ row.name \in ui["name"] THEN "Duplicate unique value"
    ELSE ""

\* Table.insert_row (section 4.3), last step: the page was written (w), the
\* row enters the indexes
index_row(pki, ui, npi, row, pg, w) ==
    [outcome |-> "ok", exists |-> w.exists, file |-> w.file,
     pki |-> IndexPut(pki, get_primary_key_value(row), << pg.page_id, pg.num_rows - 1 >>),
     ui |-> [c \in DOMAIN ui |-> IF row[c] # NULL THEN ui[c] \cup {row[c]} ELSE ui[c]],
     npi |-> npi]

\* a call that fails: nothing changes
rejected(ex, f, pki, ui, npi, error) ==
    [outcome |-> error, exists |-> ex, file |-> f, pki |-> pki, ui |-> ui, npi |-> npi]

\* Table.insert_row (section 4.3): ins is the result of Page.insert_row on the
\* page chosen, npi_after the counter if the call succeeds
store_row(ex, f, pki, ui, npi, npi_after, row, ins) ==
    IF ~ins.ret THEN rejected(ex, f, pki, ui, npi, "Row too large")
    ELSE index_row(pki, ui, npi_after, row, ins.page, write_page(ex, f, ins.page, TRUE))

\* Table.insert_row (section 4.3): the row goes to the most recently allocated
\* page (last, as read from the file) if it has room, else to a new page
place_row(ex, f, pki, ui, npi, row, last) ==
    IF last.found /\ can_fit(last.page, row)
    THEN store_row(ex, f, pki, ui, npi, npi, row, Page_insert_row(last.page, row))
    ELSE store_row(ex, f, pki, ui, npi, npi + 1, row, Page_insert_row(NewPage(npi), row))

\* Table.insert_row (section 4.3): the outcome and the table and file after
Table_insert_row(ex, f, pki, ui, npi, row) ==
    IF validate_row(ui, row) # "" THEN rejected(ex, f, pki, ui, npi, validate_row(ui, row))
    ELSE place_row(ex, f, pki, ui, npi, row,
                   IF npi > 0 THEN read_page(ex, f, npi - 1)
                   ELSE [found |-> FALSE, page |-> NoPage])

\* Table._load_indexes on the fresh indexes of __init__.  The second loop
\* follows the first one (line 94 is not inside the loop of line 91): it runs
\* over the rows of the last page yielded, and raises UnboundLocalError when
\* no page was yielded.  Line 105 returns at the end of its first iteration.
index_pages(pages) ==
    LET npi == Max({0} \cup {pages[i].page_id + 1 : i \in 1..Len(pages)})
        pg == pages[Len(pages)]
        row == pg.rows[1]
    IN  IF Len(pages) = 0
        THEN [outcome |-> "raise UnboundLocalError", pki |-> EmptyIndex, ui |-> EmptyUnique,
              npi |-> npi]
        ELSE IF Len(pg.rows) = 0
        THEN [outcome |-> "ok", pki |-> EmptyIndex, ui |-> EmptyUnique, npi |-> npi]
        ELSE [outcome |-> "ok",
              pki |-> IndexPut(EmptyIndex, get_primary_key_value(row), << pg.page_id, 0 >>),
              ui |-> [c \in DOMAIN EmptyUnique |-> {row[c]}],
              npi |-> npi]

load_indexes(ex, f) == index_pages(scan_all_pages(ex, f))

\* Table.__init__ over the table file: the new instance, or the exception
NewTable(ex, f) ==
    IF ex THEN load_indexes(ex, f)
    ELSE [outcome |-> "ok", pki |-> EmptyIndex, ui |-> EmptyUnique, npi |-> 0]

RECURSIVE ConcatRows(_)
ConcatRows(pages) ==
    IF Len(pages) = 0 THEN << >>
    ELSE ConcatRows(SubSeq(pages, 1, Len(pages) - 1)) \o pages[Len(pages)].rows

\* Table.select_all
select_all(ex, f) == ConcatRows(scan_all_pages(ex, f))

\* lines 135-138 of Table.select_by_primary_key
row_at(pg, row_index) ==
    IF ~pg.found THEN [found |-> FALSE, row |-> NoRow] ELSE get_row(pg.page, row_index)

\* select_by_primary_key looking a missing key up as location (0, 0)
select_by_primary_key_default(ex, f, pki, pk_value) ==
    IF pk_value \notin DOMAIN pki THEN row_at(read_page(ex, f, 0), 0)
    ELSE row_at(read_page(ex, f, pki[pk_value][1]), pki[pk_value][2])

\* Table.select_by_primary_key on the table of Spec, whose schema declares
\* the primary key id: the row, or absent
select_by_primary_key(ex, f, pki, pk_value) ==
    IF pk_value \notin DOMAIN pki THEN [found |-> FALSE, row |-> NoRow]
    ELSE row_at(read_page(ex, f, pki[pk_value][1]), pki[pk_value][2])

\* Table.select_by_primary_key on an instance whose primary_key_cols is
\* pk_cols: lines 125-126 return None before the index is read
select_by_primary_key_of(pk_cols, ex, f, pki, pk_value) ==
    IF Len(pk_cols) = 0 THEN [found |-> FALSE, row |-> NoRow]
    ELSE select_by_primary_key(ex, f, pki, pk_value)

\* Table.delete_by_primary_key: line 154 reads the name row, which is bound
\* nowhere in the method, so a call that gets that far raises NameError and
\* lines 157-171 are never run.
Table_delete_by_primary_key(ex, f, pki, pk_value) ==
    IF pk_value \notin DOMAIN pki THEN "Row not found"
    ELSE IF ~read_page(ex, f, pki[pk_value][1]).found THEN "page not found"
    ELSE "raise NameError"

\* Table.update_by_primary_key: line 183 reads self.file_manager, while
\* __init__ (line 72) sets self.file_manger, so a call on an indexed key
\* raises AttributeError and lines 185-219 are never run.
Table_update_by_primary_key(pki, pk_value, updates) ==
    IF pk_value \notin DOMAIN pki THEN "Row not found"
    ELSE "raise AttributeError"

----------------------------------------------------------------------------
(* Spec: one Table instance at a time over the table file.  Reopen builds  *)
(* a new instance over the same file; it replaces the current one unless   *)
(* the constructor raises.                                                 *)

\* Rows offered to the table: two that fill a page exactly and two short
\* ones; ids 1 and names "x" occur twice.
TableRows ==
    { [id |-> 1, name |-> 4059], [id |-> 10, name |-> 4058],
      [id |-> 2, name |-> 1], [id |-> 1, name |-> 1] }
Keys == {1, 2, 10}
Updates == { [c \in {"name"} |-> 1], [c \in {"name"} |-> 4059], [c \in {"id"} |-> 2] }

Init ==
    /\ page = NoPage
    /\ plast = NoCall
    /\ exists = FALSE
    /\ file = << >>
    /\ flast = [op |-> "none", page_id |-> 0, ret |-> FALSE, found |-> FALSE, page |-> NoPage]
    /\ TableIdle

\* table.insert_row(row); the file is kept to MaxPages pages
Inserted(row, r) ==
    /\ Len(r.file) <= MaxPages
    /\ exists' = r.exists
    /\ file' = r.file
    /\ primary_key_index' = r.pki
    /\ unique_indexes' = r.ui
    /\ next_page_id' = r.npi
    /\ tlast' = [op |-> "insert_row", key |-> row.id, row |-> row, outcome |-> r.outcome]

Insert(row) ==
    Inserted(row, Table_insert_row(exists, file, primary_key_index, unique_indexes,
                                   next_page_id, row))

\* delete_by_primary_key dropping the index entry before it reads the page
Delete_unindexing(pk_value) ==
    /\ tlast' = [op |-> "delete_by_primary_key", key |-> pk_value, row |-> NoRow,
                 outcome |-> Table_delete_by_primary_key(exists, file, primary_key_index,
                                                         pk_value)]
    /\ primary_key_index' =
          [k \in DOMAIN primary_key_index \ {pk_value} |-> primary_key_index[k]]
    /\ UNCHANGED <<exists, file, unique_indexes, next_page_id>>

\* table.delete_by_primary_key(pk_value)
Delete(pk_value) ==
    /\ tlast' = [op |-> "delete_by_primary_key", key |-> pk_value, row |-> NoRow,
                 outcome |-> Table_delete_by_primary_key(exists, file, primary_key_index,
                                                         pk_value)]
    /\ UNCHANGED <<exists, file, primary_key_index, unique_indexes, next_page_id>>

\* table.update_by_primary_key(pk_value, updates)
Update(pk_value, updates) ==
    /\ tlast' = [op |-> "update_by_primary_key", key |-> pk_value, row |-> NoRow,
                 outcome |-> Table_update_by_primary_key(primary_key_index, pk_value, updates)]
    /\ UNCHANGED <<exists, file, primary_key_index, unique_indexes, next_page_id>>

\* table.select_by_primary_key(pk_value)
Selected(pk_value, r) ==
    /\ tlast' = [op |-> "select_by_primary_key", key |-> pk_value, row |-> r.row,
                 outcome |-> IF r.found THEN "row" ELSE "absent"]
    /\ UNCHANGED <<exists, file, primary_key_index, unique_indexes, next_page_id>>

Select(pk_value) ==
    Selected(pk_value, select_by_primary_key(exists, file, primary_key_index, pk_value))

\* Table(name, [Column("id", "INTEGER"), Column("name", "TEXT")], file_manager)
\* .select_by_primary_key(pk_value): a second instance over the same file whose
\* schema declares no primary key.  Its constructor returns when there is no
\* file or scan_all_pages yields a page (it raises UnboundLocalError otherwise).
SelectKeyless(pk_value) ==
    /\ ~exists \/ Len(scan_all_pages(exists, file)) > 0
    /\ tlast' = [op |-> "select_by_primary_key without primary key", key |-> pk_value,
                 row |-> NoRow,
                 outcome |-> IF select_by_primary_key_of(<< >>, exists, file,
                                                         EmptyIndex, pk_value).found
                             THEN "row" ELSE "absent"]
    /\ UNCHANGED <<exists, file, primary_key_index, unique_indexes, next_page_id>>

\* table = Table(name, columns, file_manager) over the same file
Reopened(t) ==
    /\ tlast' = [op |-> "Table", key |-> 0, row |-> NoRow, outcome |-> t.outcome]
    /\ IF t.outcome = "ok"
       THEN /\ primary_key_index' = t.pki
            /\ unique_indexes' = t.ui
            /\ next_page_id' = t.npi
       ELSE UNCHANGED <<primary_key_index, unique_indexes, next_page_id>>
    /\ UNCHANGED <<exists, file>>

Reopen == Reopened(NewTable(exists, file))

TableRest == <<page, plast, flast>>

InsertStep == (\E row \in TableRows : Insert(row)) /\ UNCHANGED TableRest
DeleteStep == (\E pk_value \in Keys : Delete(pk_value)) /\ UNCHANGED TableRest
UpdateStep ==
    (\E pk_value \in Keys, updates \in Updates : Update(pk_value, updates))
      /\ UNCHANGED TableRest
SelectStep == (\E pk_value \in Keys : Select(pk_value)) /\ UNCHANGED TableRest
SelectKeylessStep == (\E pk_value \in Keys : SelectKeyless(pk_value)) /\ UNCHANGED TableRest
ReopenStep == Reopen /\ UNCHANGED TableRest

Next ==
    \/ InsertStep
    \/ DeleteStep
    \/ UpdateStep
    \/ SelectStep
    \/ SelectKeylessStep
    \/ ReopenStep

Spec == Init /\ [][Next]_vars

----------------------------------------------------------------------------
(* Properties of the Page (PageSpec) *)

RECURSIVE SlotBytes(_)
\* the bytes taken by the slots of rows: each row's encoding and its 4-byte prefix
SlotBytes(rows) ==
    IF rows = << >> THEN 0
    ELSE Len(json_dumps(Head(rows))) + 4 + SlotBytes(Tail(rows))

\* C6: for every page built by insert_row calls, deserialize(serialize(page))
\* is a page with the same page_id, num_rows, free_space_offset and rows.
C6_RoundTrip ==
    LET d == deserialize(serialize(page))
    IN  d.ok /\ d.page = page

\* C8: after any sequence of insert_row / update_row / delete_row calls,
\* free_space_offset = HEADER_SIZE + the bytes of the slots present, num_rows
\* is the number of rows present, and free_space_offset <= PAGE_SIZE.
C8_SpaceAccounting ==
    /\ page.free_space_offset = HEADER_SIZE + SlotBytes(page.rows)
    /\ page.num_rows = Len(page.rows)
    /\ page.free_space_offset <= PAGE_SIZE

\* reached: a page of two rows on which update_row has just succeeded
C8_Witness ==
    /\ plast.op = "update_row" /\ plast.ret
    /\ Len(page.rows) = 2
    /\ page.rows[plast.index + 1] = plast.row

\* C9: can_fit(row) is false exactly when the row's encoded size + 4 exceeds
\* PAGE_SIZE - free_space_offset; insert_row succeeds exactly when can_fit is
\* true and then appends the row at slot old num_rows; otherwise it returns
\* false and leaves rows, num_rows and free_space_offset unchanged.
C9_CanFitAndInsert ==
    [][ plast'.op = "insert_row" =>
          LET row == plast'.row
              exceeds == Len(json_dumps(row)) + 4 > PAGE_SIZE - page.free_space_offset
          IN  /\ can_fit(page, row) <=> ~exceeds
              /\ plast'.ret <=> ~exceeds
              /\ ~exceeds => /\ Len(page'.rows) = Len(page.rows) + 1
                             /\ SubSeq(page'.rows, 1, Len(page.rows)) = page.rows
                             /\ get_row(page', page.num_rows) = [found |-> TRUE, row |-> row]
              /\ exceeds => /\ page'.rows = page.rows
                            /\ page'.num_rows = page.num_rows
                            /\ page'.free_space_offset = page.free_space_offset ]_vars

\* reached: an insert_row that succeeded with exactly the free space it needed
C9_Witness ==
    /\ plast.op = "insert_row" /\ plast.ret
    /\ page.free_space_offset = PAGE_SIZE
    /\ page.rows[Len(page.rows)] = plast.row

\* C18: update_row(index, new_row) succeeds exactly when index is a slot of
\* the page and the new encoding is no longer than the old one or its growth
\* (new size - old size) is at most PAGE_SIZE - free_space_offset; when it
\* fails the page is unchanged.
C18_UpdateFitsGrowth ==
    [][ plast'.op = "update_row" =>
          LET valid == 0 <= plast'.index /\ plast'.index < Len(page.rows)
              old_size == Len(json_dumps(page.rows[plast'.index + 1]))
              new_size == Len(json_dumps(plast'.row))
              fits == \/ new_size <= old_size
                      \/ new_size - old_size <= PAGE_SIZE - page.free_space_offset
          IN  /\ plast'.ret <=> (valid /\ fits)
              /\ plast'.ret => page'.rows = [page.rows EXCEPT ![plast'.index + 1] = plast'.row]
              /\ ~plast'.ret => page' = page ]_vars

----------------------------------------------------------------------------
(* Properties of the FileManager (FileSpec) *)

\* C7: after write_page(name, p) returned true, read_page(name, p.page_id)
\* returns a page equal to p, not absent.
C7_WriteThenRead ==
    (flast.op = "write_page" /\ flast.ret) =>
        read_page(exists, file, flast.page_id) = [found |-> TRUE, page |-> flast.page]

\* C14: read_page returns absent exactly when the file does not exist or
\* (page_id + 1) * PAGE_SIZE exceeds the file length, hence for every
\* page_id >= get_num_pages = file length div PAGE_SIZE; for a complete page
\* written by write_page it returns that page.
C14_AbsentOnlyPastEnd ==
    /\ get_num_pages(exists, file) = (IF exists THEN file_size(file) \div PAGE_SIZE ELSE 0)
    /\ \A page_id \in 0..(MaxPageId + 1) :
          /\ ~read_page(exists, file, page_id).found
                <=> (~exists \/ (page_id + 1) * PAGE_SIZE > file_size(file))
          /\ page_id >= get_num_pages(exists, file) => ~read_page(exists, file, page_id).found
    /\ (flast.op = "write_page" /\ flast.ret) =>
          /\ read_page(exists, file, flast.page_id).found
          /\ read_page(exists, file, flast.page_id).page = flast.page

RECURSIVE StoredFrom(_, _, _, _)
RECURSIVE StoredRow(_, _, _, _, _)
RECURSIVE StoredNext(_, _, _, _, _)
\* the rows a block holds by the page layout (section 6): n slots from
\* offset, each a 4-byte length and that many bytes of JSON; ok is false when
\* a slot runs past the block or does not hold a JSON row
StoredFrom(data, n, offset, rows) ==
    IF n = 0 THEN [ok |-> TRUE, rows |-> rows]
    ELSE IF offset + 4 > Len(data) THEN [ok |-> FALSE, rows |-> << >>]
    ELSE StoredRow(data, n, offset + 4, rows, unpack_I(Slice(data, offset, offset + 4)))

StoredRow(data, n, offset, rows, row_length) ==
    IF offset + row_length > Len(data) \/ ~utf8_decodes(Slice(data, offset, offset + row_length))
    THEN [ok |-> FALSE, rows |-> << >>]
    ELSE StoredNext(data, n, offset + row_length, rows,
                    json_loads(Slice(data, offset, offset + row_length)))

StoredNext(data, n, offset, rows, parsed) ==
    IF ~parsed.ok THEN [ok |-> FALSE, rows |-> << >>]
    ELSE StoredFrom(data, n - 1, offset, Append(rows, parsed.row))

StoredRows(blk) ==
    StoredFrom(BlockBytes(blk), unpack_I(Slice(BlockBytes(blk), 4, 8)), HEADER_SIZE, << >>)

\* C15: a complete page of the file whose declared num_rows or length
\* prefixes disagree with its bytes is not reported by read_page as an absent
\* page, is not left out by scan_all_pages as if it were empty, and gives no
\* page of rows the block does not hold.
C15_CorruptPageIsLoud ==
    \A i \in 1..Len(file) :
        (exists /\ ~StoredRows(file[i]).ok) =>
            /\ read_page(exists, file, i - 1) # [found |-> FALSE, page |-> NoPage]
            /\ read_page(exists, file, i - 1).found => StoredRows(file[i]).ok
            /\ \E j \in 1..Len(scan_all_pages(exists, file)) :
                  scan_all_pages(exists, file)[j].page_id
                    = unpack_I(Slice(BlockBytes(file[i]), 0, 4))

----------------------------------------------------------------------------
(* Properties of the Table (Spec) *)

Select_now(k) == select_by_primary_key(exists, file, primary_key_index, k)

\* C1: after any sequence of insert/update/delete operations,
\* primary_key_index holds exactly one entry per row select_all returns, and
\* select_by_primary_key of each such row's key returns exactly that row.
C1_IndexConsistent ==
    LET rows == select_all(exists, file)
    IN  /\ Cardinality(DOMAIN primary_key_index) = Len(rows)
        /\ \A i \in 1..Len(rows) :
              /\ rows[i].id \in DOMAIN primary_key_index
              /\ Select_now(rows[i].id) = [found |-> TRUE, row |-> rows[i]]

\* C2: delete_by_primary_key of a live row at slot i of page p succeeds and
\* moves the entry of every other row of p at a slot j > i to (p, j - 1), so
\* that every remaining key of p still selects its own row.
C2_DeleteShiftsSlots ==
    [][ (tlast'.op = "delete_by_primary_key" /\ tlast'.key \in DOMAIN primary_key_index) =>
          LET loc == primary_key_index[tlast'.key]
          IN  /\ tlast'.outcome = "ok"
              /\ \A k \in DOMAIN primary_key_index \ {tlast'.key} :
                    primary_key_index[k][1] = loc[1] =>
                      /\ k \in DOMAIN primary_key_index'
                      /\ primary_key_index[k][2] > loc[2] =>
                            primary_key_index'[k] = << loc[1], primary_key_index[k][2] - 1 >>
                      /\ LET r == select_by_primary_key(exists', file', primary_key_index', k)
                         IN  r.found /\ r.row.id = k ]_vars

\* C3: a Table constructed over an existing file has, for every row of every
\* non-empty page, a primary_key_index entry keyed by the row's primary key
\* that points at (page_id, slot), and the row's unique values in
\* unique_indexes.
C3_LoadIndexesAllRows ==
    (tlast.op = "Table" /\ tlast.outcome = "ok" /\ exists) =>
        LET pages == scan_all_pages(exists, file)
        IN  \A n \in 1..Len(pages) : \A i \in 1..Len(pages[n].rows) :
              LET row == pages[n].rows[i]
              IN  /\ row.id \in DOMAIN primary_key_index
                  /\ primary_key_index[row.id] = << pages[n].page_id, i - 1 >>
                  /\ \A c \in DOMAIN unique_indexes : row[c] \in unique_indexes[c]

\* C4: a fresh Table constructed over the file has the indexes the current
\* instance holds, and select_by_primary_key answers the same on both.
C4_RebuildEqualsIncremental ==
    LET t == NewTable(exists, file)
    IN  t.outcome = "ok" =>
          /\ t.pki = primary_key_index
          /\ t.ui = unique_indexes
          /\ \A k \in Keys :
                select_by_primary_key(exists, file, t.pki, k) = Select_now(k)

\* C5: no two rows returned by select_all hold the same primary key or the
\* same non-null value of a unique column.
C5_UniqueAmongLiveRows ==
    LET rows == select_all(exists, file)
    IN  \A i, j \in 1..Len(rows) :
          i < j => /\ rows[i].id # rows[j].id
                   /\ rows[i].name # NULL => rows[i].name # rows[j].name

\* C10: delete_by_primary_key(k) of a live row r returns (True, None); then k
\* is not a key of primary_key_index, the unique values of r are gone from
\* unique_indexes, select_all does not return r, select_by_primary_key(k) is
\* absent, and a row with primary key k passes validation again.
C10_DeleteRemovesRow ==
    [][ (tlast'.op = "delete_by_primary_key" /\ tlast'.key \in DOMAIN primary_key_index) =>
          LET k == tlast'.key
              r == Select_now(k)
              after == select_all(exists', file')
          IN  /\ tlast'.outcome = "ok"
              /\ k \notin DOMAIN primary_key_index'
              /\ k \notin unique_indexes'["id"]
              /\ r.found => /\ r.row.name # NULL => r.row.name \notin unique_indexes'["name"]
                            /\ \A i \in 1..Len(after) : after[i] # r.row
              /\ ~select_by_primary_key(exists', file', primary_key_index', k).found
              /\ validate_row(unique_indexes', [id |-> k, name |-> NULL]) = "" ]_vars

\* a call that returned (False, reason): it did not raise and did not succeed
ReturnedFalse(outcome) ==
    outcome \notin {"ok", "raise NameError", "raise AttributeError", "raise UnboundLocalError"}

\* C11: update_by_primary_key(k, updates) of an indexed key whose updates
\* change the primary key returns (False, reason) and leaves the file and the
\* indexes unchanged.
C11_PrimaryKeyImmutable ==
    [][ \A k \in Keys, u \in Updates :
          (/\ Update(k, u)
           /\ k \in DOMAIN primary_key_index
           /\ "id" \in DOMAIN u /\ u["id"] # k) =>
              /\ ReturnedFalse(tlast'.outcome)
              /\ UNCHANGED <<exists, file, primary_key_index, unique_indexes>> ]_vars

\* C12: update_by_primary_key(k, updates) of a live row r, with updates that
\* keep the key, collide with no other row and do not grow the row, returns
\* (True, None); then select_by_primary_key(k) returns r merged with updates,
\* the index entry of k is the same, and every other key selects what it did.
C12_UpdateMergesRow ==
    [][ \A k \in Keys, u \in Updates :
          (/\ Update(k, u)
           /\ Select_now(k).found
           /\ DOMAIN u = {"name"}
           /\ u["name"] \notin unique_indexes["name"] \ {Select_now(k).row.name}
           /\ u["name"] <= Select_now(k).row.name) =>
              /\ tlast'.outcome = "ok"
              /\ select_by_primary_key(exists', file', primary_key_index', k)
                   = [found |-> TRUE, row |-> [Select_now(k).row EXCEPT !.name = u["name"]]]
              /\ primary_key_index'[k] = primary_key_index[k]
              /\ \A o \in Keys \ {k} :
                    select_by_primary_key(exists', file', primary_key_index', o)
                      = Select_now(o) ]_vars

\* the index entry of k designates no readable page, or no slot of that page
Stale(k) ==
    /\ k \in DOMAIN primary_key_index
    /\ \/ ~read_page(exists, file, primary_key_index[k][1]).found
       \/ primary_key_index[k][2] \notin
            0..(Len(read_page(exists, file, primary_key_index[k][1]).page.rows) - 1)

RECURSIVE AllStored(_)
\* the rows held by the blocks of f, in page order and slot order
AllStored(f) ==
    IF Len(f) = 0 THEN << >>
    ELSE AllStored(SubSeq(f, 1, Len(f) - 1)) \o StoredRows(f[Len(f)]).rows

\* C16: select_all returns exactly the rows stored in the complete pages
\* 0 .. get_num_pages - 1 of the file, in page order then slot order, none
\* left out and none twice.
C16_SelectAllComplete ==
    select_all(exists, file) = AllStored(IF exists THEN file ELSE << >>)

\* C17: next_page_id never decreases, and after every insert, update, delete
\* and reopening it is greater than the id of every page present in the file.
C17_PageIdsNotReused ==
    [][ /\ next_page_id' >= next_page_id
        /\ next_page_id' >= get_num_pages(exists', file') ]_vars

\* C19: update_by_primary_key of a live row with updates that leave its
\* primary key and unique values as they are is accepted, not rejected as a
\* collision with the row itself; updates that take the unique value of
\* another row are rejected with (False, reason).
C19_OwnValuesDoNotCollide ==
    [][ \A k \in Keys, u \in Updates :
          (Update(k, u) /\ Select_now(k).found /\ DOMAIN u = {"name"}) =>
              /\ u["name"] = Select_now(k).row.name => tlast'.outcome = "ok"
              /\ u["name"] \in unique_indexes["name"] \ {Select_now(k).row.name} =>
                    ReturnedFalse(tlast'.outcome) ]_vars

====
